---- MODULE Spec2Model ----
(***************************************************************************)
(* Sendly: the newsletter scheduling and delivery pipeline.                *)
(*                                                                         *)
(* The model covers the preference store (user_preferences), the handlers  *)
(* that write it and send "newsletter.schedule" events, and the function   *)
(* "newsletter/scheduled", one action per step.run.                        *)
(*                                                                         *)
(* The repository holds three revisions of the preference handlers; each   *)
(* is a specification of its own, over the same store, queue and function: *)
(*   Spec          POST and PATCH of the preference route                  *)
(*   SpecSchedule  the route that schedules by time: POSTSchedule and      *)
(*                 PATCHReschedule with rescheduleUserNewsletter           *)
(*   SpecAction    the server action createUpdateUserPreferences, with     *)
(*                 PATCH to pause and resume                               *)
(*                                                                         *)
(* Time is counted in minutes of local time; minute 0 is a local midnight. *)
(***************************************************************************)
EXTENDS Integers, Sequences, FiniteSets, Bags, TLC

VARIABLES
    now,        \* the wall clock, in minutes
    nodeEnv,    \* process.env.NODE_ENV of the deployment
    prefs,      \* user_preferences: one row (or none) per user_id
    pending,    \* the bag of newsletter.schedule events sent and not yet run
    runs,       \* runs[s]: the run the orchestrator executes, or executed last, in slot s
    news,       \* the news adapter: its requestCache and its latest call
    response    \* the answer to the latest request a store specification observed

vars == <<now, nodeEnv, prefs, pending, runs, news, response>>

----------------------------------------------------------------------------
\* Bounds of the model

\* The events that may wait in the queue at one time.
MaxPending == 2

\* The number of times the clock advances.
MaxTicks == 1

\* The retries the orchestrator grants a failed run.
MaxRetries == 1

\* The articles the news API returns for one run.
MaxArticles == 1

\* The runs the orchestrator executes at one time.
MaxConcurrent == 1

----------------------------------------------------------------------------
\* Time

MinutesPerHour == 60

MinutesPerDay == 24 * MinutesPerHour

HalfDay == 12 * MinutesPerHour

MaxNow == MaxTicks * HalfDay

NoTime == 0 - 1

FiveMinutes == 5

NineAM == 9

\* Date.prototype.setHours(9, 0, 0, 0): same local date, time of day 09:00.
setHours9(t) == (t \div MinutesPerDay) * MinutesPerDay + NineAM * MinutesPerHour

\* The switch on frequency: the number of days added to now.
FrequencyDays(frequency) ==
    CASE frequency = "daily" -> 1
      [] frequency = "weekly" -> 7
      [] frequency = "biweekly" -> 14
      [] OTHER -> 7

\* now plus the frequency offset, then the time of day set to 09:00.
FrequencyTime(t, frequency) == setHours9(t + FrequencyDays(frequency) * MinutesPerDay)

----------------------------------------------------------------------------
\* Values

Users == {"u1"}

Slots == 1..MaxConcurrent

EmailX == <<"x", "@", "e">>

EmailY == <<"y", "@", "e">>

EmailBad == <<"x", "e">>

Frequencies == {"daily", "weekly", "biweekly"}

\* The request bodies the handlers are called with.
Bodies ==
    { [categories |-> <<"ai">>, frequency |-> "daily", email |-> EmailX],
      [categories |-> <<"ai", "blockchain">>, frequency |-> "weekly", email |-> EmailY],
      [categories |-> <<>>, frequency |-> "daily", email |-> EmailX],
      [categories |-> <<"ai">>, frequency |-> "monthly", email |-> EmailX],
      [categories |-> <<"ai">>, frequency |-> "daily", email |-> EmailBad] }

NoPrefs ==
    [exists |-> FALSE, categories |-> <<>>, frequency |-> "", email |-> <<>>,
     is_active |-> FALSE, copies |-> 0, updated_at |-> NoTime,
     subscription_plan |-> "", subscription_status |-> "",
     stripe_customer_id |-> "none", subscription_id |-> "none"]

Event(userId, email, categories, frequency, scheduledFor, isTest, ts, src) ==
    [userId |-> userId, email |-> email, categories |-> categories,
     frequency |-> frequency, scheduledFor |-> scheduledFor, isTest |-> isTest,
     ts |-> ts, src |-> src]

NoEvent == Event("", <<>>, <<>>, "", NoTime, "undefined", NoTime, "none")

NoResult == [none |-> TRUE]

SkipReason == "User newsletter is paused"

StepOrder ==
    <<"check-user-status", "fetch-news", "generate-newsletter", "send-email",
      "schedule-next">>

\* A slot that has run nothing yet.
IdleRun ==
    [event |-> NoEvent, pc |-> "idle", isUserActive |-> "unset", read |-> "none",
     steps |-> <<>>, found |-> NoTime, articles |-> 0, selected |-> 0, emailsTo |-> <<>>, storeAtSend |-> "unset",
     sent |-> <<>>, scheduledAt |-> NoTime, failedAt |-> "none", retries |-> 0,
     retriedAt |-> "none", result |-> NoResult]

\* String.prototype.includes for a one-character needle.
Includes(s, c) == \E i \in DOMAIN s : s[i] = c

\* z.string().email(): an "@" with something on both sides.
IsEmail(s) == \E i \in DOMAIN s : s[i] = "@" /\ 1 < i /\ i < Len(s)

\* !flag is false: "undefined" is an event that carries no isTest.
Truthy(flag) == flag = "true"

Min(a, b) == IF a < b THEN a ELSE b

\* The bag of the events of a sequence.
SeqToBag(evs) ==
    LET S == {evs[k] : k \in DOMAIN evs}
    IN  [e \in S |-> Cardinality({k \in DOMAIN evs : evs[k] = e})]

\* inngest.send of the events evs: they join the queue, which has room for them.
Send(evs) ==
    /\ BagCardinality(pending) + Len(evs) <= MaxPending
    /\ pending' = pending (+) SeqToBag(evs)

----------------------------------------------------------------------------
\* The preference store

\* A row as INSERT creates it: the columns the statement does not name take
\* their defaults (subscription_plan 'free', subscription_status 'active', the
\* two Stripe ids NULL, updated_at NOW()).
NewRow(t) ==
    [exists |-> TRUE, categories |-> <<>>, frequency |-> "", email |-> <<>>,
     is_active |-> TRUE, copies |-> 1, updated_at |-> t,
     subscription_plan |-> "free", subscription_status |-> "active",
     stripe_customer_id |-> "none", subscription_id |-> "none"]

\* An upsert that does not name is_active.
NamedWithoutActive(row, body) ==
    [row EXCEPT !.categories = body.categories, !.frequency = body.frequency,
                !.email = body.email]

\* The columns an upsert names.
Named(row, body) ==
    [row EXCEPT !.categories = body.categories, !.frequency = body.frequency,
                !.email = body.email, !.is_active = TRUE]

\* A plain INSERT into a table without the UNIQUE constraint: one more row of
\* the user at every save.
UpsertAsInsert(u, body) ==
    [prefs EXCEPT ![u] =
        [Named(NewRow(now), body) EXCEPT !.copies = prefs[u].copies + 1]]

\* upsert(..., {onConflict: "user_id"}) on user_id UNIQUE: without a row of the
\* user one is inserted; with one, the named columns of that row are updated,
\* the other columns stay, and the BEFORE UPDATE trigger sets updated_at.
Upsert(u, body) ==
    [prefs EXCEPT ![u] =
        IF prefs[u].exists
        THEN [Named(prefs[u], body) EXCEPT !.updated_at = now]
        ELSE Named(NewRow(now), body)]

\* update({is_active}).eq("user_id", u): no row, no change, no error; the
\* trigger sets updated_at of the row it updates.
UpdateActive(u, is_active) ==
    IF prefs[u].exists
    THEN [prefs EXCEPT ![u].is_active = is_active, ![u].updated_at = now]
    ELSE prefs

\* user_id ... REFERENCES auth.users(id) ON DELETE CASCADE: deleting the
\* account deletes the row.
AccountDeleted(u) ==
    /\ prefs[u].exists
    /\ prefs' = [prefs EXCEPT ![u] = NoPrefs]
    /\ UNCHANGED <<now, nodeEnv, pending, runs, news, response>>

----------------------------------------------------------------------------
\* The preference route: POST and PATCH

\* A validation without the check of the categories.
PostValidationNoCategories(body) ==
    IF body.frequency \notin Frequencies THEN "frequency"
    ELSE IF Len(body.email) = 0 \/ ~Includes(body.email, "@") THEN "email"
    ELSE "ok"

\* The three checks of POST, in the order of the code: "ok" or the field refused.
PostValidation(body) ==
    IF Len(body.categories) = 0 THEN "categories"
    ELSE IF body.frequency \notin Frequencies THEN "frequency"
    ELSE IF Len(body.email) = 0 \/ ~Includes(body.email, "@") THEN "email"
    ELSE "ok"

\* The isTest flag of the event POST sends.
PostIsTest == "true"

\* The events POST sends after the upsert: one, without a time, when the send
\* succeeds.
PostEvents(u, body, sendOk) ==
    IF sendOk
    THEN <<Event(u, body.email, body.categories, body.frequency, NoTime,
                 PostIsTest, now, "POST")>>
    ELSE <<>>

\* No request was answered yet.
NoAnswer == [route |-> "none", status |-> 0, success |-> FALSE, scheduled |-> FALSE]

\* A POST that answers 500 when sending the event throws.
PostResponseFailsOnSend(body, upsertOk, sendOk) ==
    IF PostValidation(body) # "ok"
    THEN [route |-> "POST", status |-> 400, success |-> FALSE, scheduled |-> FALSE]
    ELSE IF ~upsertOk \/ ~sendOk
    THEN [route |-> "POST", status |-> 500, success |-> FALSE, scheduled |-> FALSE]
    ELSE [route |-> "POST", status |-> 200, success |-> TRUE, scheduled |-> TRUE]

\* What POST answers: 400 for a refused body, 500 for a failed upsert, and
\* success otherwise, with a scheduleId when the event was sent and a warning
\* when sending threw.
PostResponse(body, upsertOk, sendOk) ==
    IF PostValidation(body) # "ok"
    THEN [route |-> "POST", status |-> 400, success |-> FALSE, scheduled |-> FALSE]
    ELSE IF ~upsertOk
    THEN [route |-> "POST", status |-> 500, success |-> FALSE, scheduled |-> FALSE]
    ELSE [route |-> "POST", status |-> 200, success |-> TRUE, scheduled |-> sendOk]

\* POST /api/user-preferences: validate (400), upsert (500 when it fails), send
\* the first event; a send that throws is caught and the answer is still success.
POST(u, body, upsertOk, sendOk) ==
    /\ PostValidation(body) = "ok"
    /\ upsertOk
    /\ prefs' = Upsert(u, body)
    /\ Send(PostEvents(u, body, sendOk))
    /\ UNCHANGED <<now, nodeEnv, runs, news>>

\* A POST that is refused, or whose upsert fails: nothing is written or sent.
POSTRejected(u, body, upsertOk) ==
    /\ PostValidation(body) # "ok" \/ ~upsertOk
    /\ UNCHANGED <<now, nodeEnv, prefs, pending, runs, news>>

\* The isTest flag of the event PATCH sends: process.env.NODE_ENV !== "production".
PatchIsTest == IF nodeEnv # "production" THEN "true" ELSE "false"

\* The events PATCH sends on reactivation: one, built from the stored row.
PatchEvents(u, sendOk) ==
    IF prefs[u].exists /\ sendOk
    THEN <<Event(u, prefs[u].email, prefs[u].categories, prefs[u].frequency,
                 NoTime, PatchIsTest, now, "PATCH")>>
    ELSE <<>>

\* What PATCH answers: 500 for a failed update; success otherwise, whether or
\* not the event of a reactivation was sent.
PatchResponse(u, is_active, updateOk, sendOk) ==
    IF ~updateOk
    THEN [route |-> "PATCH", status |-> 500, success |-> FALSE, scheduled |-> FALSE]
    ELSE [route |-> "PATCH", status |-> 200, success |-> TRUE,
          scheduled |-> is_active /\ prefs[u].exists /\ sendOk]

\* PATCH /api/user-preferences: set is_active; on reactivation send the
\* events; a failure there is logged and ignored. (A failed update answers 500
\* and changes nothing.)
PATCH(u, is_active, sendOk) ==
    /\ prefs' = UpdateActive(u, is_active)
    /\ Send(IF is_active THEN PatchEvents(u, sendOk) ELSE <<>>)
    /\ UNCHANGED <<now, nodeEnv, runs, news>>

\* A PATCH whose update fails: nothing is written or sent.
PATCHRejected(u, is_active) ==
    /\ u \in Users
    /\ is_active \in BOOLEAN
    /\ UNCHANGED <<now, nodeEnv, prefs, pending, runs, news>>

----------------------------------------------------------------------------
\* The route that schedules by time: POSTSchedule and PATCHReschedule

\* The two checks of this POST: the email is not checked.
PostScheduleValidation(body) ==
    IF Len(body.categories) = 0 THEN "categories"
    ELSE IF body.frequency \notin Frequencies THEN "frequency"
    ELSE "ok"

\* POST: validate, upsert, send a test event that carries scheduledFor (now +
\* the frequency offset, at 09:00). A send that throws is answered 500; the row
\* stays saved.
POSTSchedule(u, body, upsertOk, sendOk) ==
    /\ PostScheduleValidation(body) = "ok"
    /\ upsertOk
    /\ prefs' = Upsert(u, body)
    /\ Send(IF sendOk
            THEN <<Event(u, body.email, body.categories, body.frequency,
                         FrequencyTime(now, body.frequency), "true", now,
                         "POSTSchedule")>>
            ELSE <<>>)
    /\ UNCHANGED <<now, nodeEnv, runs, news>>

\* rescheduleUserNewsletter: the immediate event (now + 5 minutes) and the
\* regular one (now + the frequency offset, at 09:00), from the stored row.
\* sent is the number of inngest.send calls that succeed before one throws.
rescheduleUserNewsletter(u, sent) ==
    LET p == prefs[u]
        immediateScheduleTime == now + FiveMinutes
        nextScheduleTime == FrequencyTime(now, p.frequency)
        immediate == Event(u, p.email, p.categories, p.frequency,
                           immediateScheduleTime, "false", immediateScheduleTime,
                           "reschedule-immediate")
        regular == Event(u, p.email, p.categories, p.frequency,
                         nextScheduleTime, "false", nextScheduleTime,
                         "reschedule-regular")
    IN  IF ~p.exists \/ sent = 0 THEN <<>>
        ELSE IF sent = 1 THEN <<immediate>>
        ELSE <<immediate, regular>>

\* PATCH: set is_active; on reactivation call rescheduleUserNewsletter, whose
\* failure is logged and ignored.
PATCHReschedule(u, is_active, sent) ==
    /\ prefs' = UpdateActive(u, is_active)
    /\ Send(IF is_active THEN rescheduleUserNewsletter(u, sent) ELSE <<>>)
    /\ UNCHANGED <<now, nodeEnv, runs, news>>

----------------------------------------------------------------------------
\* The server action

\* UserPreferencesSchema.safeParse: "ok" or the first issue.
SchemaValidation(body) ==
    IF Len(body.categories) < 1 THEN "categories"
    ELSE IF body.frequency \notin Frequencies THEN "frequency"
    ELSE IF ~IsEmail(body.email) THEN "email"
    ELSE "ok"

\* What the server action returns (no HTTP status): success only when the
\* event was sent; a send that throws lands in the catch block.
ActionResponse(body, upsertOk, sendOk) ==
    [route |-> "action", status |-> 0,
     success |-> SchemaValidation(body) = "ok" /\ upsertOk /\ sendOk,
     scheduled |-> SchemaValidation(body) = "ok" /\ upsertOk /\ sendOk]

\* createUpdateUserPreferences: validate, upsert, send an event that carries no
\* isTest; a send that throws is answered with an error, the row stays saved.
createUpdateUserPreferences(u, body, upsertOk, sendOk) ==
    /\ SchemaValidation(body) = "ok"
    /\ upsertOk
    /\ prefs' = Upsert(u, body)
    /\ Send(IF sendOk
            THEN <<Event(u, body.email, body.categories, body.frequency, NoTime,
                         "undefined", now, "action")>>
            ELSE <<>>)
    /\ UNCHANGED <<now, nodeEnv, runs, news>>

----------------------------------------------------------------------------
\* The function "newsletter/scheduled": one run per event, one action per step

\* What the status read of check-user-status can return for user u: the row,
\* with is_active true ("active") or false ("paused"); an empty result or a
\* not-found error (code PGRST116) when there is no row; or another error.
StatusReads(u) ==
    IF prefs[u].exists
    THEN {IF prefs[u].is_active THEN "active" ELSE "paused", "error"}
    ELSE {"empty", "PGRST116", "error"}

\* A gate that lets every run through, whatever the read returned.
checkUserStatusAlwaysActive(read) == TRUE

\* The value the step check-user-status returns for a read.
checkUserStatus(read) ==
    CASE read = "PGRST116" -> TRUE
      [] read = "error" -> FALSE
      [] read = "empty" -> TRUE
      [] read = "active" -> TRUE
      [] OTHER -> FALSE

SkipResult(ev, runId) ==
    [skipped |-> TRUE, reason |-> SkipReason, userId |-> ev.userId, runId |-> runId]

CompletionResult(ev, articleCount, runId) ==
    [newsletter |-> "Your Personalized Newsletter", articleCount |-> articleCount,
     categories |-> ev.categories, emailSent |-> TRUE, nextScheduled |-> TRUE,
     success |-> TRUE, runId |-> runId]

\* A function that goes from the gate straight to send-email.
AfterCheckSkipsFetch(isUserActive) == IF isUserActive THEN "send-email" ELSE "skipped"

\* A function that schedules the next newsletter for test events too.
AfterSendAlwaysSchedules(ev) == "schedule-next"

\* The step that follows a status check that returned isUserActive.
AfterCheck(isUserActive) == IF isUserActive THEN "fetch-news" ELSE "skipped"

\* The step that follows send-email: schedule-next unless the event is a test.
AfterSend(ev) == IF ~Truthy(ev.isTest) THEN "schedule-next" ELSE "done"

\* A slot is free when it runs nothing: its last run ended, or failed for good.
Free(s) ==
    \/ runs[s].pc \in {"idle", "skipped", "done"}
    \/ runs[s].pc = "failed" /\ runs[s].retries >= MaxRetries

\* The orchestrator starts the run of a waiting event whose time has come.
\* Step 0, check-user-status, and the early return when the user is not active.
CheckUserStatus(s, ev, read) ==
    LET isUserActive == checkUserStatus(read)
    IN  /\ Free(s)
        /\ BagIn(ev, pending)
        /\ ev.ts <= now
        /\ read \in StatusReads(ev.userId)
        /\ pending' = pending (-) SetToBag({ev})
        /\ runs' = [runs EXCEPT ![s] =
              [IdleRun EXCEPT !.event = ev,
                              !.pc = AfterCheck(isUserActive),
                              !.isUserActive = IF isUserActive THEN "true" ELSE "false",
                              !.read = read,
                              !.steps = <<"check-user-status">>,
                              !.result = IF isUserActive THEN NoResult
                                         ELSE SkipResult(ev, s)]]
        /\ UNCHANGED <<now, nodeEnv, prefs, news, response>>

\* A fetchArticles without the fallback article.
fetchArticlesNoFallback(found) == found

\* fetchArticles: the articles of all categories, or the one fallback article
\* when none was found.
fetchArticles(found) == IF found = 0 THEN 1 ELSE found

\* A function whose skip branch does not return: the run goes on to fetch-news.
FetchNewsAfterSkip(s, found) ==
    /\ runs[s].pc \in {"fetch-news", "skipped"}
    /\ runs' = [runs EXCEPT ![s] =
          [@ EXCEPT !.pc = "generate-newsletter",
                    !.found = found,
                    !.articles = fetchArticles(found),
                    !.steps = Append(@, "fetch-news")]]
    /\ UNCHANGED <<now, nodeEnv, prefs, pending, news, response>>

\* Step 1: fetch-news. found is the number of articles the news API returns.
FetchNews(s, found) ==
    /\ runs[s].pc = "fetch-news"
    /\ runs' = [runs EXCEPT ![s] =
          [@ EXCEPT !.pc = "generate-newsletter",
                    !.found = found,
                    !.articles = fetchArticles(found),
                    !.steps = Append(@, "fetch-news")]]
    /\ UNCHANGED <<now, nodeEnv, prefs, pending, news, response>>

\* The number of selectedArticles: the articles that name a category go to it,
\* the remaining ones fill the categories up, two per category at most.
SelectedArticles(articles, categories) == Min(articles, 2 * Len(categories))

\* Step 2: generate-newsletter (the template always yields content).
GenerateNewsletter(s) ==
    /\ runs[s].pc = "generate-newsletter"
    /\ runs' = [runs EXCEPT ![s] =
          [@ EXCEPT !.pc = "send-email",
                    !.selected = SelectedArticles(runs[s].articles, runs[s].event.categories),
                    !.steps = Append(@, "generate-newsletter")]]
    /\ UNCHANGED <<now, nodeEnv, prefs, pending, news, response>>

\* What the store holds for the user of an event (recorded for the claims only).
StoreState(u) ==
    IF ~prefs[u].exists THEN "missing"
    ELSE IF prefs[u].is_active THEN "active" ELSE "paused"

\* A send-email step that reads the store again and gives up when the
\* subscriber has paused since the gate.
SendEmailRechecks(s, ok) ==
    LET r == runs[s]
    IN  /\ r.pc = "send-email"
        /\ runs' = [runs EXCEPT ![s] =
              IF StoreState(r.event.userId) = "paused"
              THEN [r EXCEPT !.pc = "skipped", !.result = SkipResult(r.event, s)]
              ELSE IF ok
              THEN [r EXCEPT !.pc = AfterSend(r.event),
                             !.emailsTo = Append(@, r.event.email),
                             !.storeAtSend = StoreState(r.event.userId),
                             !.steps = Append(@, "send-email")]
              ELSE [r EXCEPT !.pc = "failed", !.failedAt = "send-email"]]
        /\ UNCHANGED <<now, nodeEnv, prefs, pending, news, response>>

\* A send-email step that logs the provider's error and carries on.
SendEmailSwallowsError(s, ok) ==
    LET r == runs[s]
    IN  /\ r.pc = "send-email"
        /\ runs' = [runs EXCEPT ![s] =
              [r EXCEPT !.pc = AfterSend(r.event),
                        !.emailsTo = IF ok THEN Append(@, r.event.email) ELSE @,
                        !.storeAtSend = StoreState(r.event.userId),
                        !.steps = Append(@, "send-email"),
                        !.result = IF AfterSend(r.event) = "done"
                                   THEN CompletionResult(r.event, r.selected, s)
                                   ELSE NoResult]]
        /\ UNCHANGED <<now, nodeEnv, prefs, pending, news, response>>

\* Step 3: send-email. The provider accepts the mail or returns an error, which
\* is thrown; the catch of the function rethrows it and the attempt fails.
SendEmail(s, ok) ==
    LET r == runs[s]
    IN  /\ r.pc = "send-email"
        /\ runs' = [runs EXCEPT ![s] =
              IF ok
              THEN [r EXCEPT !.pc = AfterSend(r.event),
                             !.emailsTo = Append(@, r.event.email),
                             !.storeAtSend = StoreState(r.event.userId),
                             !.steps = Append(@, "send-email"),
                             !.result = IF AfterSend(r.event) = "done"
                                        THEN CompletionResult(r.event, r.selected, s)
                                        ELSE NoResult]
              ELSE [r EXCEPT !.pc = "failed", !.failedAt = "send-email"]]
        /\ UNCHANGED <<now, nodeEnv, prefs, pending, news, response>>

\* The time of the successor event: the event's own scheduledFor when it has
\* one, otherwise now plus the frequency offset, at 09:00.
NextScheduleTime(ev) ==
    IF ev.scheduledFor # NoTime
    THEN ev.scheduledFor
    ELSE FrequencyTime(now, ev.frequency)

\* A schedule-next that builds the successor from the stored row.
SuccessorsFromStore(ev) ==
    LET p == prefs[ev.userId]
    IN  <<Event(ev.userId, p.email, p.categories, p.frequency, NoTime,
                "undefined", NextScheduleTime(ev), "schedule-next")>>

\* A schedule-next that sends the successor twice.
SuccessorsTwice(ev) ==
    LET e == Event(ev.userId, ev.email, ev.categories, ev.frequency, NoTime,
                   "undefined", NextScheduleTime(ev), "schedule-next")
    IN  <<e, e>>

\* The events schedule-next sends for event ev.
Successors(ev) ==
    <<Event(ev.userId, ev.email, ev.categories, ev.frequency, NoTime,
            "undefined", NextScheduleTime(ev), "schedule-next")>>

\* A function that schedules the next newsletter inside the send-email step: a
\* failed inngest.send fails that step, which is then executed again.
ScheduleNextInSendStep(s, ok) ==
    LET r == runs[s]
    IN  /\ r.pc = "schedule-next"
        /\ IF ok
           THEN /\ Send(Successors(r.event))
                /\ runs' = [runs EXCEPT ![s] =
                      [r EXCEPT !.pc = "done",
                                !.sent = @ \o Successors(r.event),
                                !.scheduledAt = now,
                                !.steps = Append(@, "schedule-next"),
                                !.result = CompletionResult(r.event, r.selected, s)]]
           ELSE /\ runs' = [runs EXCEPT ![s] =
                      [r EXCEPT !.pc = "failed", !.failedAt = "send-email",
                                !.steps = SubSeq(@, 1, Len(@) - 1)]]
                /\ UNCHANGED pending
        /\ UNCHANGED <<now, nodeEnv, prefs, news, response>>

\* Step 4: schedule-next. inngest.send succeeds, or throws and the attempt fails.
ScheduleNext(s, ok) ==
    LET r == runs[s]
    IN  /\ r.pc = "schedule-next"
        /\ IF ok
           THEN /\ Send(Successors(r.event))
                /\ runs' = [runs EXCEPT ![s] =
                      [r EXCEPT !.pc = "done",
                                !.sent = @ \o Successors(r.event),
                                !.scheduledAt = now,
                                !.steps = Append(@, "schedule-next"),
                                !.result = CompletionResult(r.event, r.selected, s)]]
           ELSE /\ runs' = [runs EXCEPT ![s] =
                      [r EXCEPT !.pc = "failed", !.failedAt = "schedule-next"]]
                /\ UNCHANGED pending
        /\ UNCHANGED <<now, nodeEnv, prefs, news, response>>

\* The orchestrator runs a failed run again: the steps that completed return
\* their memoized results, so the run resumes at the step that failed.
Retry(s) ==
    /\ runs[s].pc = "failed"
    /\ runs[s].retries < MaxRetries
    /\ runs' = [runs EXCEPT ![s] =
          [@ EXCEPT !.pc = runs[s].failedAt, !.failedAt = "none",
                    !.retriedAt = runs[s].failedAt, !.retries = @ + 1]]
    /\ UNCHANGED <<now, nodeEnv, prefs, pending, news, response>>

----------------------------------------------------------------------------
\* The news adapter: fetchArticles of lib/utils/news.ts, and the revision of it
\* that validates its parameters and keeps a requestCache

\* The articles the provider returns for one topic, at most.
MaxProvided == 2

\* The calls of fetchArticles in one process.
MaxFetches == 2

\* The minutes the process clock runs while articles are fetched.
MaxFetchMinutes == 5

\* CACHE_DURATION = 5 * 60 * 1000 ms, in minutes.
CACHE_DURATION == 5

Topics == {"ai", "blockchain"}

\* The topic lists fetchArticles is called with.
TopicLists == {<<>>, <<"ai">>, <<"ai", "blockchain">>}

\* The (articlesPerCategory, maxConcurrentRequests) pairs it is called with:
\* the limits of both ranges and the values next to them.
FetchParams == {<<1, 3>>, <<20, 3>>, <<0, 3>>, <<21, 3>>, <<1, 0>>, <<1, 6>>}

\* How the request for one topic ends: HTTP ok with provider status "ok", HTTP
\* 429, HTTP 5xx, another non-ok HTTP status, HTTP ok with a provider status
\* that is not "ok", or an exception (network error, timeout).
Statuses == {"ok", "429", "500", "404", "provider-error", "throw"}

\* A response: its status and, when ok, the number of usable articles in it.
Responses ==
    {[status |-> "ok", m |-> m] : m \in 0..MaxProvided}
        \cup {[status |-> st, m |-> 0] : st \in Statuses \ {"ok"}}

\* No response: no request was issued for the topic.
NoResponse == [status |-> "none", m |-> 0]

\* The responses received: those of the topics a request was issued for.
Received(categories, responses, network) ==
    [i \in DOMAIN categories |->
        IF categories[i] \in network THEN responses[i] ELSE NoResponse]

Article(topic, i) == [topic |-> topic, i |-> i]

\* The first k articles of a response for topic.
FirstArticles(topic, k) == [i \in 1..k |-> Article(topic, i)]

\* results.flat()
RECURSIVE Flat(_)
Flat(lists) == IF lists = <<>> THEN <<>> ELSE Head(lists) \o Flat(Tail(lists))

\* The keys of requestCache: `${category}-${articlesPerCategory}`.
CacheKeys == Topics \X {1, 20}

NoEntry == [at |-> NoTime, data |-> <<>>]

\* The adapter before its first call: an empty requestCache.
NoCall ==
    [n |-> 0, rev |-> "none", at |-> NoTime, categories |-> <<>>, perTopic |-> 0,
     maxConcurrent |-> 0, apiKey |-> TRUE, responses |-> <<>>, network |-> {},
     result |-> <<>>, error |-> ""]

NoNews == [cache |-> [k \in CacheKeys |-> NoEntry], last |-> NoCall]

\* cached && Date.now() - cached.timestamp < CACHE_DURATION
Fresh(cache, t, key) == cache[key].at # NoTime /\ t - cache[key].at < CACHE_DURATION

\* One topic of a revision that stores what it returns, the empty list of a
\* failed request too.
fetchCategoryCachedStoresFailures(cache, t, topic, perTopic, resp) ==
    IF Fresh(cache, t, <<topic, perTopic>>)
    THEN [data |-> cache[<<topic, perTopic>>].data, network |-> FALSE, store |-> FALSE]
    ELSE IF resp.status = "ok"
    THEN [data |-> FirstArticles(topic, Min(resp.m, perTopic)), network |-> TRUE,
          store |-> TRUE]
    ELSE [data |-> <<>>, network |-> TRUE, store |-> TRUE]

\* One topic of the caching revision: the cached data when fresh; otherwise a
\* request, whose articles (the first articlesPerCategory) are returned and
\* stored when the response is ok, and which yields [] when it is not.
fetchCategoryCached(cache, t, topic, perTopic, resp) ==
    IF Fresh(cache, t, <<topic, perTopic>>)
    THEN [data |-> cache[<<topic, perTopic>>].data, network |-> FALSE, store |-> FALSE]
    ELSE IF resp.status = "ok"
    THEN [data |-> FirstArticles(topic, Min(resp.m, perTopic)), network |-> TRUE,
          store |-> TRUE]
    ELSE [data |-> <<>>, network |-> TRUE, store |-> FALSE]

\* fetchArticles(categories, articlesPerCategory, maxConcurrentRequests) of the
\* caching revision, called at time t: the error thrown ("" when none), the
\* list returned, the topics a request was issued for, and the cache after it.
fetchArticlesCached(cache, t, apiKey, categories, perTopic, maxConcurrent, responses) ==
    LET stop(error) == [error |-> error, result |-> <<>>, network |-> {}, cache |-> cache]
        per == [i \in DOMAIN categories |->
                   fetchCategoryCached(cache, t, categories[i], perTopic, responses[i])]
    IN  IF ~apiKey THEN stop("NEWS_API_KEY environment variable is required")
        ELSE IF Len(categories) = 0 THEN stop("")
        ELSE IF perTopic < 1 \/ perTopic > 20
        THEN stop("articlesPerCategory must be between 1 and 20")
        ELSE IF maxConcurrent < 1 \/ maxConcurrent > 5
        THEN stop("maxConcurrentRequests must be between 1 and 5")
        ELSE [error |-> "",
              result |-> Flat([i \in DOMAIN categories |-> per[i].data]),
              network |-> {categories[i] : i \in {j \in DOMAIN categories : per[j].network}},
              cache |-> [k \in CacheKeys |->
                  IF \E i \in DOMAIN categories :
                        k = <<categories[i], perTopic>> /\ per[i].store
                  THEN [at |-> t,
                        data |-> per[CHOOSE i \in DOMAIN categories :
                                        k = <<categories[i], perTopic>>].data]
                  ELSE cache[k]]]

\* The fallback article of lib/utils/news.ts.
Fallback == Article("AI Newsletter Service", 0)

\* One topic of lib/utils/news.ts: always a request; the first five articles
\* of an ok response, [] otherwise.
fetchCategoryPlain(topic, resp) ==
    IF resp.status = "ok" THEN FirstArticles(topic, Min(resp.m, 5)) ELSE <<>>

\* A fetchArticles whose requests are not caught one by one: the first topic
\* that fails rejects Promise.all and the whole call.
fetchArticlesPlainFailFast(categories, responses) ==
    IF \E i \in DOMAIN categories : responses[i].status # "ok"
    THEN [error |-> "fetch failed", result |-> <<>>,
          network |-> {categories[i] : i \in DOMAIN categories}]
    ELSE [error |-> "",
          result |-> Flat([i \in DOMAIN categories |->
                              FirstArticles(categories[i], Min(responses[i].m, 5))]),
          network |-> {categories[i] : i \in DOMAIN categories}]

\* fetchArticles(categories) of lib/utils/news.ts: the articles of all topics,
\* or the fallback article when there is none.
fetchArticlesPlain(categories, responses) ==
    LET allArticles ==
            Flat([i \in DOMAIN categories |-> fetchCategoryPlain(categories[i], responses[i])])
    IN  [error |-> "",
         result |-> IF Len(allArticles) = 0 THEN <<Fallback>> ELSE allArticles,
         network |-> {categories[i] : i \in DOMAIN categories}]

\* The call stops before the first topic: a parameter is refused, the key is
\* missing, or there is no topic.
StopsEarly(apiKey, categories, params) ==
    \/ ~apiKey
    \/ Len(categories) = 0
    \/ params[1] < 1 \/ params[1] > 20
    \/ params[2] < 1 \/ params[2] > 5

\* A call of the caching revision; responses are the responses to the requests
\* it issues (none when it stops early).
FetchCached(apiKey, categories, params, responses) ==
    LET out == fetchArticlesCached(news.cache, now, apiKey, categories, params[1],
                                   params[2], responses)
    IN  /\ news.last.n < MaxFetches
        /\ StopsEarly(apiKey, categories, params) => responses = <<>>
        /\ ~StopsEarly(apiKey, categories, params) => DOMAIN responses = DOMAIN categories
        /\ news' = [cache |-> out.cache,
                    last |-> [n |-> news.last.n + 1, rev |-> "cached", at |-> now,
                              categories |-> categories, perTopic |-> params[1],
                              maxConcurrent |-> params[2], apiKey |-> apiKey,
                              responses |-> Received(categories, responses, out.network),
                              network |-> out.network,
                              result |-> out.result, error |-> out.error]]
        /\ UNCHANGED <<now, nodeEnv, prefs, pending, runs, response>>

\* A call of lib/utils/news.ts, which takes the topics only.
FetchPlain(categories, responses) ==
    LET out == fetchArticlesPlain(categories, responses)
    IN  /\ news.last.n < MaxFetches
        /\ news' = [news EXCEPT !.last =
                       [n |-> news.last.n + 1, rev |-> "plain", at |-> now,
                        categories |-> categories, perTopic |-> 0,
                        maxConcurrent |-> 0, apiKey |-> TRUE,
                        responses |-> Received(categories, responses, out.network),
                        network |-> out.network,
                        result |-> out.result, error |-> out.error]]
        /\ UNCHANGED <<now, nodeEnv, prefs, pending, runs, response>>

\* Time passes between two calls: four or five minutes.
FetchTick(d) ==
    /\ now + d <= MaxFetchMinutes
    /\ now' = now + d
    /\ UNCHANGED <<nodeEnv, prefs, pending, runs, news, response>>

\* The responses to the requests of a call, one per topic.
ResponseLists(categories) == [DOMAIN categories -> Responses]

NextFetch ==
    \/ \E apiKey \in BOOLEAN, categories \in TopicLists, params \in FetchParams :
          \E responses \in ResponseLists(categories) \cup {<<>>} :
             FetchCached(apiKey, categories, params, responses)
    \/ \E categories \in TopicLists :
          \E responses \in ResponseLists(categories) : FetchPlain(categories, responses)
    \/ \E d \in {CACHE_DURATION - 1, CACHE_DURATION} : FetchTick(d)

----------------------------------------------------------------------------
\* The billing webhook

Signatures == {"missing", "invalid", "valid"}

PriceIds == {"", "price_pro", "price_premium", "price_other"}

Customers == {"cus_1"}

Subscriptions == {"sub_1"}

SubscriptionStatuses == {"active", "past_due"}

\* The events Stripe delivers: the three the handler knows and one it does not.
\* A metadata field that is missing is "".
StripeEvents ==
    [type : {"checkout.session.completed"}, userId : Users \cup {""},
     userEmail : {"", "x"}, priceId : PriceIds, customer : Customers,
     subscription : Subscriptions, status : {"active"}]
    \cup
    [type : {"customer.subscription.updated", "customer.subscription.deleted",
             "invoice.paid"},
     userId : {""}, userEmail : {""}, priceId : {""}, customer : Customers,
     subscription : Subscriptions, status : SubscriptionStatuses]

\* The event of a request whose event is never read: one that is refused for
\* its signature, or whose handling throws before any UPDATE.
UnreadEvent ==
    [type |-> "invoice.paid", userId |-> "", userEmail |-> "", priceId |-> "",
     customer |-> "cus_1", subscription |-> "sub_1", status |-> "active"]

\* The plan of a price id.
subscriptionPlan(priceId) ==
    IF priceId = "price_pro" THEN "pro"
    ELSE IF priceId = "price_premium" THEN "premium"
    ELSE "free"

\* checkout.session.completed: with the three metadata fields, an UPDATE of the
\* subscription columns of the rows of that user_id; no row, no change.
checkoutSessionCompleted(ev, updateOk) ==
    IF ev.userId # "" /\ ev.userEmail # "" /\ ev.priceId # "" /\ updateOk
    THEN [u \in Users |->
            IF u = ev.userId /\ prefs[u].exists
            THEN [prefs[u] EXCEPT
                    !.subscription_plan = subscriptionPlan(ev.priceId),
                    !.subscription_status = "active",
                    !.stripe_customer_id = ev.customer,
                    !.subscription_id = ev.subscription,
                    !.updated_at = now]
            ELSE prefs[u]]
    ELSE prefs

\* customer.subscription.updated: an UPDATE of the rows of that customer.
customerSubscriptionUpdated(ev, updateOk) ==
    [u \in Users |->
        IF updateOk /\ prefs[u].exists /\ prefs[u].stripe_customer_id = ev.customer
        THEN [prefs[u] EXCEPT !.subscription_status = ev.status,
                              !.subscription_id = ev.subscription,
                              !.updated_at = now]
        ELSE prefs[u]]

\* A cancellation that also pauses the newsletter.
customerSubscriptionDeletedPauses(ev, updateOk) ==
    [u \in Users |->
        IF updateOk /\ prefs[u].exists /\ prefs[u].stripe_customer_id = ev.customer
        THEN [prefs[u] EXCEPT !.subscription_plan = "free",
                              !.subscription_status = "cancelled",
                              !.subscription_id = "none",
                              !.is_active = FALSE,
                              !.updated_at = now]
        ELSE prefs[u]]

\* customer.subscription.deleted: an UPDATE of the rows of that customer.
customerSubscriptionDeleted(ev, updateOk) ==
    [u \in Users |->
        IF updateOk /\ prefs[u].exists /\ prefs[u].stripe_customer_id = ev.customer
        THEN [prefs[u] EXCEPT !.subscription_plan = "free",
                              !.subscription_status = "cancelled",
                              !.subscription_id = "none",
                              !.updated_at = now]
        ELSE prefs[u]]

\* What the webhook route answers: 400 without a signature or with one that
\* does not verify, 500 when handling the event throws, {received: true}
\* otherwise (an UPDATE that returns an error is logged, not thrown).
WebhookResponse(signature, throws) ==
    IF signature # "valid"
    THEN [route |-> "webhook", status |-> 400, success |-> FALSE, scheduled |-> FALSE]
    ELSE IF throws
    THEN [route |-> "webhook", status |-> 500, success |-> FALSE, scheduled |-> FALSE]
    ELSE [route |-> "webhook", status |-> 200, success |-> TRUE, scheduled |-> FALSE]

\* POST of the webhook route: a request without a signature or with one that
\* does not verify is refused; an event is handled by its type; an UPDATE that
\* fails is logged; handling that throws (before the UPDATE is issued) lands in
\* the catch block.
Webhook(signature, ev, updateOk, throws) ==
    /\ prefs' =
          IF signature # "valid" \/ throws THEN prefs
          ELSE IF ev.type = "checkout.session.completed"
               THEN checkoutSessionCompleted(ev, updateOk)
          ELSE IF ev.type = "customer.subscription.updated"
               THEN customerSubscriptionUpdated(ev, updateOk)
          ELSE IF ev.type = "customer.subscription.deleted"
               THEN customerSubscriptionDeleted(ev, updateOk)
          ELSE prefs
    /\ UNCHANGED <<now, nodeEnv, pending, runs, news>>

----------------------------------------------------------------------------
\* The clock and the specifications

\* Time passes, to the next noon or midnight.
Tick ==
    /\ now + HalfDay <= MaxNow
    /\ now' = now + HalfDay
    /\ UNCHANGED <<nodeEnv, prefs, pending, runs, news, response>>

Init ==
    /\ now = 0
    /\ nodeEnv \in {"development", "production"}
    /\ prefs = [u \in Users |-> NoPrefs]
    /\ pending = EmptyBag
    /\ runs = [s \in Slots |-> IdleRun]
    /\ news = NoNews
    /\ response = NoAnswer

\* The function, the clock and the deletion of accounts.
Engine ==
    \/ \E s \in Slots, ev \in BagToSet(pending) :
          \E read \in StatusReads(ev.userId) : CheckUserStatus(s, ev, read)
    \/ \E s \in Slots, found \in 0..MaxArticles : FetchNews(s, found)
    \/ \E s \in Slots : GenerateNewsletter(s)
    \/ \E s \in Slots, ok \in BOOLEAN : SendEmail(s, ok)
    \/ \E s \in Slots, ok \in BOOLEAN : ScheduleNext(s, ok)
    \/ \E s \in Slots : Retry(s)
    \/ \E u \in Users : AccountDeleted(u)
    \/ Tick

\* The specifications of the function observe the store and the queue, not
\* the answers of the routes: response stays as it is.
Next ==
    \/ \E u \in Users, body \in Bodies, sendOk \in BOOLEAN :
          POST(u, body, TRUE, sendOk) /\ UNCHANGED response
    \/ \E u \in Users, body \in Bodies, upsertOk \in BOOLEAN :
          POSTRejected(u, body, upsertOk) /\ UNCHANGED response
    \/ \E u \in Users, is_active \in BOOLEAN, sendOk \in BOOLEAN :
          PATCH(u, is_active, sendOk) /\ UNCHANGED response
    \/ Engine

Spec == Init /\ [][Next]_vars

NextSchedule ==
    \/ \E u \in Users, body \in Bodies, sendOk \in BOOLEAN :
          POSTSchedule(u, body, TRUE, sendOk) /\ UNCHANGED response
    \/ \E u \in Users, is_active \in BOOLEAN, sent \in 0..2 :
          PATCHReschedule(u, is_active, sent) /\ UNCHANGED response
    \/ Engine

\* This route reads no NODE_ENV.
InitSchedule == Init /\ nodeEnv = "production"

SpecSchedule == InitSchedule /\ [][NextSchedule]_vars

NextAction ==
    \/ \E u \in Users, body \in Bodies, sendOk \in BOOLEAN :
          createUpdateUserPreferences(u, body, TRUE, sendOk) /\ UNCHANGED response
    \/ \E u \in Users, is_active \in BOOLEAN, sendOk \in BOOLEAN :
          PATCH(u, is_active, sendOk) /\ UNCHANGED response
    \/ Engine

SpecAction == Init /\ [][NextAction]_vars

\* The news adapter alone, called again and again in one process.
\* The writers of the preference store, each with the answer it gives: the
\* preference route, the server action, the billing webhook; the deletion of
\* accounts, and the clock.
NextStore ==
    \/ \E u \in Users, body \in Bodies, sendOk \in BOOLEAN :
          /\ POST(u, body, TRUE, sendOk)
          /\ response' = PostResponse(body, TRUE, sendOk)
    \/ \E u \in Users, body \in Bodies, upsertOk \in BOOLEAN :
          /\ POSTRejected(u, body, upsertOk)
          /\ response' = PostResponse(body, upsertOk, TRUE)
    \/ \E u \in Users, is_active \in BOOLEAN, sendOk \in BOOLEAN :
          /\ PATCH(u, is_active, sendOk)
          /\ response' = PatchResponse(u, is_active, TRUE, sendOk)
    \/ \E u \in Users, is_active \in BOOLEAN :
          /\ PATCHRejected(u, is_active)
          /\ response' = PatchResponse(u, is_active, FALSE, TRUE)
    \/ \E u \in Users, body \in Bodies, sendOk \in BOOLEAN :
          /\ createUpdateUserPreferences(u, body, TRUE, sendOk)
          /\ response' = ActionResponse(body, TRUE, sendOk)
    \/ \E signature \in Signatures, ev \in StripeEvents :
          \E updateOk \in BOOLEAN, throws \in BOOLEAN :
             /\ (signature # "valid" \/ throws) => (ev = UnreadEvent /\ updateOk)
             /\ signature # "valid" => ~throws
             /\ Webhook(signature, ev, updateOk, throws)
             /\ response' = WebhookResponse(signature, throws)
    \/ \E u \in Users : AccountDeleted(u)
    \/ Tick

SpecStore == Init /\ [][NextStore]_vars

InitFetch == Init /\ nodeEnv = "production"

SpecFetch == InitFetch /\ [][NextFetch]_vars

\* A step of a run that is under way: each external call returns or fails, so
\* the step a run is at is eventually taken.
RunStep(s) ==
    \/ \E found \in 0..MaxArticles : FetchNews(s, found)
    \/ GenerateNewsletter(s)
    \/ \E ok \in BOOLEAN : SendEmail(s, ok)
    \/ \E ok \in BOOLEAN : ScheduleNext(s, ok)

\* The preference route and the function, with runs that do not stall.
SpecLive == Init /\ [][Next]_vars /\ \A s \in Slots : WF_vars(RunStep(s))

----------------------------------------------------------------------------
\* Properties of the function

\* a is an initial segment of b.
IsPrefix(a, b) == Len(a) <= Len(b) /\ \A i \in DOMAIN a : a[i] = b[i]

\* The steps that run after the gate.
LaterSteps == {"fetch-news", "generate-newsletter", "send-email", "schedule-next"}

\* The run in slot s executed, or is about to execute, one of the later steps.
PastGate(s) ==
    \/ \E i \in DOMAIN runs[s].steps : runs[s].steps[i] \in LaterSteps
    \/ runs[s].pc \in LaterSteps

C2_MissingRecordSkipped ==
    \A s \in Slots :
        runs[s].read \in {"empty", "PGRST116"} =>
            /\ runs[s].pc = "skipped"
            /\ runs[s].emailsTo = <<>>

\* C3. Gate fails closed: a run whose status read returned an error ends
\* skipped, executes no later step, and its result records a skip reason.
C3_GateFailsClosed ==
    \A s \in Slots :
        runs[s].read \in {"PGRST116", "error"} =>
            /\ runs[s].pc = "skipped"
            /\ ~PastGate(s)
            /\ "reason" \in DOMAIN runs[s].result

\* C4. Step ordering: the steps a run has completed are an initial segment of
\* check-user-status, fetch-news, generate-newsletter, send-email,
\* schedule-next, and the step it executes next (or failed at) is the one that
\* follows them.
C4_StepOrdering ==
    \A s \in Slots :
        LET r == runs[s]
            next == IF r.pc = "failed" THEN r.failedAt ELSE r.pc
        IN  /\ IsPrefix(r.steps, StepOrder)
            /\ next \in LaterSteps =>
                  /\ Len(r.steps) < Len(StepOrder)
                  /\ next = StepOrder[Len(r.steps) + 1]

\* A run completed all five steps, after a retry.
C4_Witness ==
    \E s \in Slots :
        /\ runs[s].steps = StepOrder
        /\ runs[s].retries > 0
        /\ runs[s].pc = "done"

\* C5. A run whose event has isTest = true never executes schedule-next and
\* sends no newsletter.schedule event, retries included.
C5_TestRunNeverSchedules ==
    \A s \in Slots :
        runs[s].event.isTest = "true" =>
            /\ runs[s].pc # "schedule-next"
            /\ runs[s].failedAt # "schedule-next"
            /\ \A i \in DOMAIN runs[s].steps : runs[s].steps[i] # "schedule-next"
            /\ runs[s].sent = <<>>

\* A test run sent its email after a retry and completed.
C5_Witness ==
    \E s \in Slots :
        /\ runs[s].event.isTest = "true"
        /\ runs[s].pc = "done"
        /\ runs[s].retries > 0
        /\ Len(runs[s].emailsTo) = 1

\* C6. A run that passed the gate and is not a test sends one email, to the
\* event's address, and then sends exactly one successor event: a completed
\* run has done both, no run does either twice, and a successor exists only
\* when the email was sent.
C6_OneEmailThenOneSuccessor ==
    \A s \in Slots :
        LET r == runs[s]
        IN  (r.isUserActive = "true" /\ r.event.isTest # "true") =>
                /\ Len(r.emailsTo) <= 1
                /\ Len(r.sent) <= 1
                /\ \A i \in DOMAIN r.emailsTo : r.emailsTo[i] = r.event.email
                /\ r.sent # <<>> => r.emailsTo = <<r.event.email>>
                /\ r.pc = "schedule-next" => r.emailsTo = <<r.event.email>>
                /\ r.pc = "done" =>
                      /\ r.emailsTo = <<r.event.email>>
                      /\ Len(r.sent) = 1

\* A run that is not a test completed after both send-email and schedule-next
\* had failed once or more.
C6_Witness ==
    \E s \in Slots :
        /\ runs[s].isUserActive = "true"
        /\ runs[s].event.isTest # "true"
        /\ runs[s].pc = "done"
        /\ Len(runs[s].sent) = 1
        /\ runs[s].retries > 0

\* C7. Frequency to offset law: the successor event of a run that is not a test
\* is timed at the time schedule-next executed plus 1, 7 or 14 days (7 for any
\* other frequency), with the time of day set to 09:00.
C7_FrequencyOffsetLaw ==
    \A s \in Slots :
        \A i \in DOMAIN runs[s].sent :
            LET f == runs[s].event.frequency
                days == IF f = "daily" THEN 1 ELSE IF f = "biweekly" THEN 14 ELSE 7
                at == runs[s].scheduledAt + days * 24 * 60
            IN  runs[s].sent[i].ts = (at \div (24 * 60)) * (24 * 60) + 9 * 60

\* C8. Reactivation dual-schedule: a PATCH that sets is_active = true for a
\* subscriber with stored preferences, and sends its events, adds two events to
\* the queue, one timed at now + 5 minutes and one at now + the frequency
\* offset at 09:00, both with the stored categories and email.
C8_ReactivationDualSchedule ==
    [][\A u \in Users :
          LET added == pending' (-) pending
              p == prefs[u]
          IN  (/\ p.exists
               /\ prefs'[u] = [p EXCEPT !.is_active = TRUE]
               /\ \E e \in BagToSet(added) :
                     e.src \in {"PATCH", "reschedule-immediate", "reschedule-regular"})
              =>
              /\ BagCardinality(added) = 2
              /\ \E e \in BagToSet(added) : e.ts = now + 5
              /\ \E e \in BagToSet(added) : e.ts = FrequencyTime(now, p.frequency)
              /\ \A e \in BagToSet(added) :
                    /\ e.userId = u
                    /\ e.categories = p.categories
                    /\ e.email = p.email]_vars

\* C9. Self-perpetuating chain: the run of the event a preference save sent,
\* once it has passed the gate and completed, has sent one successor event,
\* timed later than the run.
C9_SaveStartsChain ==
    \A s \in Slots :
        (/\ runs[s].event.src \in {"POST", "POSTSchedule", "action"}
         /\ runs[s].pc = "done")
        =>
        /\ Len(runs[s].sent) = 1
        /\ runs[s].sent[1].ts > runs[s].scheduledAt

\* C10. Pausing does not cancel an in-flight run: a run whose status check
\* returned active is never skipped, whatever the store holds afterwards; when
\* it completes it has sent its email and, unless it is a test, its successor;
\* the runs that are skipped are those whose own status check said so.
C10_PauseDoesNotCancel ==
    \A s \in Slots :
        LET r == runs[s]
        IN  /\ r.isUserActive = "true" =>
                  /\ r.pc # "skipped"
                  /\ r.pc = "done" =>
                        /\ Len(r.emailsTo) = 1
                        /\ r.event.isTest # "true" => Len(r.sent) = 1
            /\ r.pc = "skipped" => r.read \in {"paused", "error"}

\* A run passed the gate, the subscriber paused, and the run sent its email
\* to the paused subscriber, sent its successor and completed.
C10_Witness ==
    \E s \in Slots :
        /\ runs[s].isUserActive = "true"
        /\ runs[s].storeAtSend = "paused"
        /\ runs[s].event.isTest # "true"
        /\ runs[s].pc = "done"
        /\ Len(runs[s].sent) = 1

\* C11. Send failure fails the run: a run whose send-email step got an error
\* from the provider is failed at that step, with no email sent, schedule-next
\* not executed, no successor event and no result; and a result with
\* emailSent = true is returned only by a run that sent its email.
C11_SendFailureFailsRun ==
    \A s \in Slots :
        LET r == runs[s]
        IN  /\ (r.pc = "failed" /\ r.failedAt = "send-email") =>
                  /\ r.emailsTo = <<>>
                  /\ r.sent = <<>>
                  /\ \A i \in DOMAIN r.steps :
                        r.steps[i] \notin {"send-email", "schedule-next"}
                  /\ r.result = NoResult
            /\ "emailSent" \in DOMAIN r.result => Len(r.emailsTo) = 1

\* A run failed at send-email for good: the provider returned an error on the
\* first attempt and on the retry.
C11_Witness ==
    \E s \in Slots :
        /\ runs[s].pc = "failed"
        /\ runs[s].failedAt = "send-email"
        /\ runs[s].retriedAt = "send-email"
        /\ runs[s].retries = MaxRetries

\* C12. Step memoization: no step of a run completes twice, and a run sends at
\* most one email and at most one successor, whatever step failed and however
\* often the run was retried; a run retried at schedule-next has its one email
\* from before the failure.
C12_StepsRunOnce ==
    \A s \in Slots :
        LET r == runs[s]
        IN  /\ \A i, j \in DOMAIN r.steps : r.steps[i] = r.steps[j] => i = j
            /\ Len(r.emailsTo) <= 1
            /\ Len(r.sent) <= 1
            /\ r.retriedAt = "schedule-next" => Len(r.emailsTo) = 1

\* A run failed at schedule-next, was retried and completed with one email.
C12_Witness ==
    \E s \in Slots :
        /\ runs[s].retriedAt = "schedule-next"
        /\ runs[s].pc = "done"
        /\ Len(runs[s].emailsTo) = 1
        /\ Len(runs[s].sent) = 1

\* The run in slot s' is a new run, started from an event that was waiting.
NewRun(s) ==
    /\ runs'[s].steps = <<"check-user-status">>
    /\ runs'[s].retries = 0
    /\ BagIn(runs'[s].event, pending)
    /\ pending' = pending (-) SetToBag({runs'[s].event})

\* C13. Every run that is under way reaches a terminal state (skipped, done,
\* or failed with the error propagated), provided each external call returns
\* or fails; and once a run is skipped or done, none of its steps executes and
\* it sends no event: its record stays as it is until the slot starts a new
\* run, and a successor event that joins the queue meanwhile was sent by the
\* run of another slot.
C13_RunsTerminate ==
    /\ \A s \in Slots :
          (runs[s].pc \in LaterSteps) ~> (runs[s].pc \in {"skipped", "done", "failed"})
    /\ [][\A s \in Slots :
             runs[s].pc \in {"skipped", "done"} =>
                \/ /\ runs'[s] = runs[s]
                   /\ \A e \in BagToSet(pending') :
                         (/\ e.src = "schedule-next"
                          /\ CopiesIn(e, pending') > CopiesIn(e, pending)) =>
                             \E t \in Slots \ {s} : runs'[t].sent # runs[t].sent
                \/ NewRun(s)]_vars

\* A run went through its steps to done, and the successor it sent waits in
\* the queue.
C13_Witness ==
    \E s \in Slots :
        /\ runs[s].pc = "done"
        /\ Len(runs[s].sent) = 1
        /\ BagIn(runs[s].sent[1], pending)

----------------------------------------------------------------------------
\* Properties of the news adapter

\* The elements of a sequence.
Range(seq) == {seq[i] : i \in DOMAIN seq}

\* The call l got as far as fetching topic.
Fetched(l, topic) == l.rev # "none" /\ l.error = "" /\ topic \in Range(l.categories)

\* The number of articles the call l keeps of one response, at most.
PerTopicLimit(l) == IF l.rev = "cached" THEN l.perTopic ELSE 5

\* C14. Per-topic fetch isolation: in a call of fetchArticles that issues
\* requests, a topic whose request fails (HTTP 429, 5xx, another non-ok status,
\* a provider error status, an exception) contributes no article, every article
\* returned for a topic whose request succeeded is in the result, and the call
\* does not fail.
C14_PerTopicIsolation ==
    LET l == news.last
    IN  l.network # {} =>
            /\ l.error = ""
            /\ \A i \in DOMAIN l.categories :
                  /\ l.responses[i].status = "ok" =>
                        \A k \in 1..l.responses[i].m :
                            k <= PerTopicLimit(l) =>
                                [topic |-> l.categories[i], i |-> k] \in Range(l.result)
                  /\ l.responses[i].status \in {"429", "500", "404", "provider-error", "throw"} =>
                        \A a \in Range(l.result) : a.topic # l.categories[i]

\* A call for two topics got HTTP 429 for the first and articles for the
\* second, and returned the articles of the second.
C14_Witness ==
    LET l == news.last
    IN  /\ Len(l.categories) = 2
        /\ l.responses[1].status = "429"
        /\ l.responses[2].status = "ok"
        /\ l.responses[2].m > 0
        /\ Len(l.result) = l.responses[2].m
        /\ l.error = ""

\* C15. Cache TTL: of two fetches of the same (topic, perTopic) key made less
\* than 5 minutes apart, at most one issues a network call; and a fetch made 5
\* minutes or more after the cached entry's timestamp issues a network call.
C15_CacheTTL ==
    [][LET a == news.last
           b == news'.last
       IN  b.n = a.n + 1 =>
              \A topic \in Topics :
                 /\ (/\ Fetched(a, topic)
                     /\ Fetched(b, topic)
                     /\ a.rev = b.rev
                     /\ a.perTopic = b.perTopic
                     /\ b.at - a.at < 5)
                    => ~(topic \in a.network /\ topic \in b.network)
                 /\ (/\ Fetched(b, topic)
                     /\ b.rev = "cached"
                     /\ news.cache[<<topic, b.perTopic>>].at # 0 - 1
                     /\ b.at - news.cache[<<topic, b.perTopic>>].at >= 5)
                    => topic \in b.network]_vars

\* C16. Fetch input constraints: fetchArticles called with an empty topic list
\* returns an empty list and no error; called with topics and with perTopic
\* outside 1..20 or maxConcurrent outside 1..5 it fails with an error and
\* issues no request. (With the API key configured.)
C16_FetchInputConstraints ==
    LET l == news.last
    IN  (l.rev # "none" /\ l.apiKey) =>
            /\ l.categories = <<>> => (l.result = <<>> /\ l.error = "")
            /\ (/\ l.rev = "cached"
                /\ l.categories # <<>>
                /\ \/ l.perTopic < 1 \/ l.perTopic > 20
                   \/ l.maxConcurrent < 1 \/ l.maxConcurrent > 5)
               => (l.error # "" /\ l.network = {})

ValidInput(categories, frequency, email) ==
    /\ Len(categories) > 0
    /\ frequency \in Frequencies
    /\ Includes(email, "@")

C18_ValidationRejection ==
    /\ \A u \in Users :
          prefs[u].exists =>
              ValidInput(prefs[u].categories, prefs[u].frequency, prefs[u].email)
    /\ \A e \in BagToSet(pending) :
          e.src \in {"POST", "POSTSchedule"} =>
              ValidInput(e.categories, e.frequency, e.email)

\* ---------------------------------------------------------------------------
\* C19  Idempotent upsert: there is at most one preference record per user; a
\* save leaves exactly one record of the user, holding the categories, the
\* frequency and the email that were saved; updated_at of a record never goes
\* backwards.
C19_OneRecord ==
    \A u \in Users :
        /\ prefs[u].copies <= 1
        /\ prefs[u].exists <=> prefs[u].copies = 1

C19_SaveStep ==
    \A u \in Users :
        /\ (prefs[u].exists /\ prefs'[u].exists) =>
               prefs'[u].updated_at >= prefs[u].updated_at
        /\ \A e \in BagToSet(pending') :
               (/\ e.src \in {"POST", "action"}
                /\ e.userId = u
                /\ CopiesIn(e, pending') > CopiesIn(e, pending)) =>
                   /\ prefs'[u].copies = 1
                   /\ prefs'[u].categories = e.categories
                   /\ prefs'[u].frequency = e.frequency
                   /\ prefs'[u].email = e.email
                   /\ prefs'[u].updated_at = now

\* C19. One record per user at all times, and every save step keeps it so.
C19_IdempotentUpsert == [](C19_OneRecord) /\ [][C19_SaveStep]_vars

\* The same input was saved twice (two equal events of POST wait in the queue)
\* and the user has one record, which holds that input.
C19_Witness ==
    \E e \in BagToSet(pending) :
        /\ e.src = "POST"
        /\ CopiesIn(e, pending) = 2
        /\ prefs[e.userId].copies = 1
        /\ prefs[e.userId].categories = e.categories
        /\ prefs[e.userId].frequency = e.frequency
        /\ prefs[e.userId].email = e.email

\* ---------------------------------------------------------------------------
\* C20  Store invariant: whatever the preference route, the server action and
\* the billing webhook did, every record that is active has a non-empty list
\* of categories.
C20_ActiveHasCategories ==
    \A u \in Users :
        (prefs[u].exists /\ prefs[u].is_active) => Len(prefs[u].categories) > 0

\* A record that was saved, paused and resumed, and upgraded by the webhook,
\* is active and has categories.
C20_Witness ==
    \E u \in Users :
        /\ prefs[u].exists
        /\ prefs[u].is_active
        /\ prefs[u].subscription_plan = "pro"
        /\ Len(prefs[u].categories) > 0
        /\ \E e \in BagToSet(pending) : e.src = "PATCH" /\ e.userId = u

\* ---------------------------------------------------------------------------
\* C21  Webhook errors: a webhook request that fails (no signature, a signature
\* that does not verify, an error while the event is handled) is answered with
\* a status from 400 to 499, and a request refused for its signature changes no
\* preference record.
C21_FailureIs4xx ==
    (response.route = "webhook" /\ ~response.success) =>
        response.status \in 400..499

C21_RefusedChangesNothing ==
    (response' # response /\ response'.route = "webhook" /\ response'.status = 400) =>
        prefs' = prefs

\* C21. Every failed webhook request is answered 4xx, and one refused for its
\* signature changes no record.
C21_WebhookErrors == [](C21_FailureIs4xx) /\ [][C21_RefusedChangesNothing]_vars

\* ---------------------------------------------------------------------------
\* C22  Checkout completion: once a verified checkout.session.completed event
\* of user U with price id P was handled, U has a preference record whose plan
\* is the tier of P, whose status is active and which carries the customer and
\* the subscription of the event, whether or not U had a record before.
CheckoutHandled(ev) ==
    /\ ev.type = "checkout.session.completed"
    /\ ev.userId \in Users
    /\ ev.userEmail # ""
    /\ ev.priceId # ""
    /\ Webhook("valid", ev, TRUE, FALSE)
    /\ response' = WebhookResponse("valid", FALSE)

C22_Step ==
    \A ev \in StripeEvents :
        CheckoutHandled(ev) =>
            /\ prefs'[ev.userId].exists
            /\ prefs'[ev.userId].subscription_plan = subscriptionPlan(ev.priceId)
            /\ prefs'[ev.userId].subscription_status = "active"
            /\ prefs'[ev.userId].stripe_customer_id = ev.customer
            /\ prefs'[ev.userId].subscription_id = ev.subscription

\* C22. Every step that handles a verified checkout event leaves the record of
\* its user with the plan, the status and the references of the event.
C22_CheckoutCompletion == [][C22_Step]_vars

\* ---------------------------------------------------------------------------
\* C23  Billing frame: handling a webhook event of any type leaves the
\* categories, the frequency, the email and is_active of every preference
\* record as they were, and creates and deletes no record.
WebhookStep ==
    \E signature \in Signatures, ev \in StripeEvents :
        \E updateOk \in BOOLEAN, throws \in BOOLEAN :
            Webhook(signature, ev, updateOk, throws)

C23_Frame ==
    WebhookStep =>
        \A u \in Users :
            /\ prefs'[u].exists = prefs[u].exists
            /\ prefs'[u].copies = prefs[u].copies
            /\ prefs'[u].categories = prefs[u].categories
            /\ prefs'[u].frequency = prefs[u].frequency
            /\ prefs'[u].email = prefs[u].email
            /\ prefs'[u].is_active = prefs[u].is_active

\* C23. Every webhook step leaves the preference columns of every record alone.
C23_BillingFrame == [][C23_Frame]_vars

\* A paused record with two categories went through a checkout and an update
\* of its subscription.
C23_Witness ==
    \E u \in Users :
        /\ prefs[u].exists
        /\ ~prefs[u].is_active
        /\ Len(prefs[u].categories) = 2
        /\ prefs[u].subscription_plan = "premium"
        /\ prefs[u].subscription_status = "past_due"
        /\ response.route = "webhook"

\* ---------------------------------------------------------------------------
\* C24  Completion output: a run that completes returns emailSent and success
\* only after its email was sent, and its nextScheduled flag is true exactly
\* when the run sent a successor event (so it is false for a test run).
C24_CompletionOutput ==
    \A s \in Slots :
        runs[s].pc = "done" =>
            /\ runs[s].result.emailSent
            /\ runs[s].result.success
            /\ runs[s].emailsTo # <<>>
            /\ runs[s].result.nextScheduled <=> (runs[s].sent # <<>>)

\* ---------------------------------------------------------------------------
\* C25  One chain per subscriber: at any time at most one event that is not a
\* test waits in the queue for a subscriber, whatever saves, pause and resume
\* toggles and run completions came before.
NonTest(u) == {e \in BagToSet(pending) : e.userId = u /\ ~Truthy(e.isTest)}

C25_OnePendingPerSubscriber ==
    \A u \in Users :
        /\ \A e \in NonTest(u) : CopiesIn(e, pending) = 1
        /\ \A e1, e2 \in NonTest(u) : e1 = e2

\* ---------------------------------------------------------------------------
\* C26  Successor strictly later: every successor event schedule-next sent is
\* timed later than the moment the step executed, for every frequency and
\* whether or not the run's event carried scheduledFor.
C26_SuccessorStrictlyLater ==
    \A s \in Slots :
        \A i \in DOMAIN runs[s].sent :
            runs[s].sent[i].ts > runs[s].scheduledAt

\* ---------------------------------------------------------------------------
\* C27  Payload propagation: a run sends its email to the email of its event,
\* and its successor carries the userId, the email, the categories and the
\* frequency of that event and no isTest, whatever the store holds by then.
C27_PayloadPropagation ==
    \A s \in Slots :
        LET r == runs[s]
        IN  /\ \A i \in DOMAIN r.emailsTo : r.emailsTo[i] = r.event.email
            /\ \A i \in DOMAIN r.sent :
                  /\ r.sent[i].userId = r.event.userId
                  /\ r.sent[i].email = r.event.email
                  /\ r.sent[i].categories = r.event.categories
                  /\ r.sent[i].frequency = r.event.frequency
                  /\ r.sent[i].isTest = "undefined"

\* A run completed with its email and its successor sent while the record of
\* its subscriber held another email, other categories and another frequency.
C27_Witness ==
    \E s \in Slots :
        LET r == runs[s]
            p == prefs[r.event.userId]
        IN  /\ r.pc = "done"
            /\ Len(r.emailsTo) = 1
            /\ Len(r.sent) = 1
            /\ p.exists
            /\ p.email # r.event.email
            /\ p.categories # r.event.categories
            /\ p.frequency # r.event.frequency

\* ---------------------------------------------------------------------------
\* C28  A save reactivates: after a successful save by POST or by the server
\* action the record of the subscriber is active, whatever it was before; a
\* record starts active, and it becomes inactive only by a PATCH with
\* is_active = false.
SaveStep(u) ==
    \E body \in Bodies, sendOk \in BOOLEAN :
        \/ POST(u, body, TRUE, sendOk)
        \/ createUpdateUserPreferences(u, body, TRUE, sendOk)

Paused(p) == p.exists /\ ~p.is_active

C28_Step ==
    \A u \in Users :
        /\ SaveStep(u) => (prefs'[u].exists /\ prefs'[u].is_active)
        /\ (Paused(prefs'[u]) /\ ~Paused(prefs[u])) =>
               \E sendOk \in BOOLEAN : PATCH(u, FALSE, sendOk)

Answered(route) ==
    /\ response'.route = route
    /\ response' # response \/ prefs' # prefs \/ pending' # pending

Written(u) == prefs'[u].exists /\ prefs'[u] # prefs[u]

C29_Step ==
    \A u \in Users :
        /\ (Answered("POST") /\ Written(u) /\ pending' = pending) =>
               /\ response'.status = 200
               /\ response'.success
               /\ ~response'.scheduled
               /\ prefs'[u].is_active
               /\ prefs'[u].updated_at = now
        /\ (Answered("PATCH") /\ Paused(prefs[u]) /\ Written(u)
              /\ prefs'[u].is_active /\ pending' = pending) =>
               /\ response'.status = 200
               /\ response'.success
               /\ ~response'.scheduled

\* C29. Every save or reactivation whose event was not sent is answered success
\* and stays stored.
C29_SaveSurvivesSendFailure == [][C29_Step]_vars

\* The latest request was a POST answered with success and the warning that
\* scheduling failed; the record it saved is stored and active, and the queue
\* holds no event.
C29_Witness ==
    \E u \in Users :
        /\ response.route = "POST"
        /\ response.success
        /\ ~response.scheduled
        /\ prefs[u].exists
        /\ prefs[u].is_active
        /\ pending = EmptyBag

\* ---------------------------------------------------------------------------
\* C30  Failures are never cached: a call writes the cache entry of a (topic,
\* perTopic) key only when the request for that topic got an HTTP-ok response
\* with provider status "ok"; a request that ends in 429, 5xx, another non-ok
\* status, a provider error or an exception leaves the entry as it was, and the
\* next fetch of that key issues a request again unless an entry is fresh.
Failures == {"429", "500", "404", "provider-error", "throw"}

C30_Step ==
    LET a == news.last
        b == news'.last
    IN  b.n = a.n + 1 =>
          /\ \A k \in CacheKeys :
                news'.cache[k] # news.cache[k] =>
                    /\ b.rev = "cached"
                    /\ b.perTopic = k[2]
                    /\ \E i \in DOMAIN b.categories :
                          b.categories[i] = k[1] /\ b.responses[i].status = "ok"
                    /\ news'.cache[k].at = b.at
          /\ \A i \in DOMAIN b.responses :
                (b.rev = "cached" /\ b.responses[i].status \in Failures) =>
                    news'.cache[<<b.categories[i], b.perTopic>>]
                        = news.cache[<<b.categories[i], b.perTopic>>]
          /\ \A i \in DOMAIN a.responses, j \in DOMAIN b.responses :
                (/\ a.rev = "cached" /\ b.rev = "cached"
                 /\ a.error = "" /\ b.error = ""
                 /\ a.categories[i] = b.categories[j]
                 /\ a.perTopic = b.perTopic
                 /\ a.responses[i].status \in Failures) =>
                    \/ b.categories[j] \in b.network
                    \/ Fresh(news.cache, b.at, <<b.categories[j], b.perTopic>>)

\* C30. Every call writes the cache for ok responses only.
C30_FailuresNeverCached == [][C30_Step]_vars

\* A call made when the entry of its topic had expired got a failure, and the
\* expired entry, with its articles, is still the one in the cache.
C30_Witness ==
    LET l == news.last
    IN  /\ l.rev = "cached"
        /\ l.error = ""
        /\ Len(l.categories) = 1
        /\ l.responses[1].status \in Failures
        /\ l.result = <<>>
        /\ news.cache[<<l.categories[1], l.perTopic>>].at # NoTime
        /\ news.cache[<<l.categories[1], l.perTopic>>].at < l.at
        /\ news.cache[<<l.categories[1], l.perTopic>>].data # <<>>

====
